---- MODULE Spec2Model ----
(***************************************************************************)
(* Model of the three leaf utilities of argus-src:                         *)
(*   src/constants/app.ts          the exported object `app`               *)
(*   src/models/globalErrorMsg.ts  the class GlobalErrorMsg                *)
(*   src/utils/darkUtil.ts         isDark = useDark(),                     *)
(*                                 toggleDark = useToggle(isDark)          *)
(* useDark and useToggle are imports of @vueuse/core; they are modelled by *)
(* their call contract: useDark() yields a boolean ref initialised from    *)
(* the host's theme preference, useToggle(ref) yields a function that      *)
(* negates the ref when called without argument and stores the argument    *)
(* when called with one.                                                   *)
(***************************************************************************)
EXTENDS Integers, Sequences, FiniteSets

VARIABLES
    app,            \* the exported constants object (a plain, unfrozen object)
    appAssigned,    \* history: some caller has assigned a property of app
    isDark,         \* value of the ref exported by darkUtil.ts
    preferredDark,  \* the host's theme preference read by useDark()
    calls,          \* history: argument tuples of the constructor calls
    instances,      \* results of the constructor calls, in call order
    lastOp,         \* history: the operation that produced this state
    toggleRun,      \* history: length (1 or 2) of the current run of toggleDark()
    runStart        \* history: isDark before the current run of toggleDark()

vars == <<app, appAssigned, isDark, preferredDark, calls, instances,
          lastOp, toggleRun, runStart>>

\* Bound on the number of GlobalErrorMsg objects constructed in one behaviour.
MaxRecords == 2

\* Inputs of the constructor.
Titles == {"Network Error"}
Msgs == {"Failed to reach server"}
Durations == {-1, 0, 5000}
NoticeTypes == {"success", "warning", "info", "error", ""}
Types == NoticeTypes \cup {"fatal"}

\* Values a caller can assign to a property of app.
EnvNames == {"production", "development"}
AppKeys == {"PRODUCTION", "DEVELOPMENT"}

\* Argument lists of toggleDark: none, or one boolean.
ToggleArgs == {<<>>, <<TRUE>>, <<FALSE>>}

Fields == {"title", "msg", "duration", "type"}

----------------------------------------------------------------------------
\* constants/app.ts: the object literal.
appLiteralSame ==
    [PRODUCTION |-> "production", DEVELOPMENT |-> "production"]

appLiteral ==
    [PRODUCTION |-> "production", DEVELOPMENT |-> "development"]

\* models/globalErrorMsg.ts: the constructor, four field assignments.
GlobalErrorMsgSwapped(title, msg, duration, type) ==
    [title |-> msg, msg |-> title, duration |-> duration, type |-> type]

GlobalErrorMsgClamped(title, msg, duration, type) ==
    [title |-> title, msg |-> msg,
     duration |-> IF duration < 0 THEN 0 ELSE duration,
     type |-> IF type \in NoticeTypes THEN type ELSE ""]

GlobalErrorMsgValidating(title, msg, duration, type) ==
    IF duration >= 0 /\ type \in NoticeTypes
    THEN [title |-> title, msg |-> msg, duration |-> duration, type |-> type]
    ELSE [error |-> "InvalidArgument"]

GlobalErrorMsg(title, msg, duration, type) ==
    [title |-> title, msg |-> msg, duration |-> duration, type |-> type]

\* utils/darkUtil.ts: useDark() reads the host's preference.
useDarkInverted(preferred) == ~preferred

useDark(preferred) == preferred

\* utils/darkUtil.ts: the function returned by useToggle(isDark), applied to
\* the current value and the argument list of the call.
useToggleSticky(value, args) ==
    IF Len(args) > 0 THEN args[1] ELSE TRUE

useToggle(value, args) ==
    IF Len(args) > 0 THEN args[1] ELSE ~value

----------------------------------------------------------------------------
Init ==
    /\ app = appLiteral
    /\ appAssigned = FALSE
    /\ preferredDark \in BOOLEAN
    /\ isDark = useDark(preferredDark)
    /\ calls = <<>>
    /\ instances = <<>>
    /\ lastOp = "init"
    /\ toggleRun = 0
    /\ runStart = isDark

\* new GlobalErrorMsg(title, msg, duration, type)
NewGlobalErrorMsgLeaky(title, msg, duration, type) ==
    /\ Len(instances) < MaxRecords
    /\ calls' = Append(calls, <<title, msg, duration, type>>)
    /\ instances' = <<GlobalErrorMsg(title, msg, duration, type)>>
    /\ lastOp' = "new GlobalErrorMsg"
    /\ UNCHANGED <<app, appAssigned, isDark, preferredDark, toggleRun, runStart>>

NewGlobalErrorMsg(title, msg, duration, type) ==
    /\ Len(instances) < MaxRecords
    /\ calls' = Append(calls, <<title, msg, duration, type>>)
    /\ instances' = Append(instances, GlobalErrorMsg(title, msg, duration, type))
    /\ lastOp' = "new GlobalErrorMsg"
    /\ UNCHANGED <<app, appAssigned, isDark, preferredDark, toggleRun, runStart>>

\* toggleDark(...args)
toggleDark(args) ==
    /\ isDark' = useToggle(isDark, args)
    /\ lastOp' = IF Len(args) = 0 THEN "toggleDark()" ELSE "toggleDark(value)"
    /\ toggleRun' = IF Len(args) > 0 THEN 0
                    ELSE IF toggleRun = 1 THEN 2 ELSE 1
    /\ runStart' = IF Len(args) = 0 /\ toggleRun = 1 THEN runStart ELSE isDark
    /\ UNCHANGED <<app, appAssigned, preferredDark, calls, instances>>

\* app[key] = value, by a module that imports app: the object is neither
\* frozen nor declared readonly, so the assignment takes effect.
assignApp(key, value) ==
    /\ app' = [app EXCEPT ![key] = value]
    /\ appAssigned' = TRUE
    /\ lastOp' = "app[key] = value"
    /\ UNCHANGED <<isDark, preferredDark, calls, instances, toggleRun, runStart>>

Next ==
    \/ \E t \in Titles, m \in Msgs, d \in Durations, ty \in Types :
           NewGlobalErrorMsg(t, m, d, ty)
    \/ \E args \in ToggleArgs : toggleDark(args)
    \/ \E k \in AppKeys, v \in EnvNames : assignApp(k, v)

Spec == Init /\ [][Next]_vars

----------------------------------------------------------------------------
\* Helpers of the properties.
ValidInput(c) == c[3] >= 0 /\ c[4] \in NoticeTypes

ValidRecord(r) == r.duration >= 0 /\ r.type \in NoticeTypes

HoldsInputs(r, c) ==
    /\ DOMAIN r = Fields
    /\ r.title = c[1]
    /\ r.msg = c[2]
    /\ r.duration = c[3]
    /\ r.type = c[4]

Called == 1..Len(calls)

\* C1: for every valid input (duration >= 0, type one of the five notice
\* types) the constructor returns a record whose title, msg, duration and type
\* are the four inputs in positional order, untransformed.
C1_ValidInputsStored ==
    \A i \in Called :
        ValidInput(calls[i]) =>
            instances[i] = [title |-> calls[i][1], msg |-> calls[i][2],
                            duration |-> calls[i][3], type |-> calls[i][4]]

C1_Witness ==
    /\ lastOp = "new GlobalErrorMsg"
    /\ calls[Len(calls)] = <<"Network Error", "Failed to reach server", 5000, "error">>
    /\ instances[Len(instances)].type = "error"

\* C2: a toggleDark call without argument leaves isDark equal to the negation
\* of the value it had immediately before the call.
C2_SingleToggleNegates ==
    [][lastOp' = "toggleDark()" => isDark' = ~isDark]_vars

C2_Witness ==
    /\ lastOp = "toggleDark()"
    /\ toggleRun = 1
    /\ isDark = ~runStart

\* C3: two toggleDark calls without argument, with no other write to isDark
\* between them, leave isDark at the value it had before the first call.
C3_DoubleToggleRestores ==
    toggleRun = 2 => isDark = runStart

C3_Witness ==
    /\ toggleRun = 2
    /\ lastOp = "toggleDark()"

\* C5: as exported, app.PRODUCTION is 'production', app.DEVELOPMENT is
\* 'development', and the two values differ.
C5_EnvironmentNames ==
    ~appAssigned =>
        /\ app.PRODUCTION = "production"
        /\ app.DEVELOPMENT = "development"
        /\ app.PRODUCTION # app.DEVELOPMENT

C5_Witness ==
    /\ ~appAssigned
    /\ lastOp # "init"
    /\ DOMAIN app = AppKeys

\* C6: the constants are read-only: in every reachable state, whatever a caller
\* did with the exported object, PRODUCTION is 'production' and DEVELOPMENT is
\* 'development'.
C6_ConstantsReadOnly ==
    /\ app.PRODUCTION = "production"
    /\ app.DEVELOPMENT = "development"

\* C7 as claimed: every record in every reachable state has duration >= 0 and
\* a type among the five notice types.
C7_AllRecordsValid ==
    \A i \in 1..Len(instances) : ValidRecord(instances[i])

\* C7 as amended: a record is valid (duration >= 0, type among the five notice
\* types) exactly when the inputs of its constructor call were; the
\* constructor neither rejects nor repairs a negative duration or another type.
C7_ValidIffInputsValid ==
    \A i \in Called : ValidRecord(instances[i]) <=> ValidInput(calls[i])

C7_Witness ==
    /\ Len(instances) = 2
    /\ ValidRecord(instances[1])
    /\ ~ValidRecord(instances[2])
    /\ instances[2].duration < 0

\* C8: constructing never fails: every call, also one with a negative duration
\* or a type outside the five notice types, returns a record with the four
\* fields holding the inputs unchanged.
C8_ConstructionTotal ==
    /\ Len(instances) = Len(calls)
    /\ \A i \in Called : HoldsInputs(instances[i], calls[i])

C8_Witness ==
    /\ lastOp = "new GlobalErrorMsg"
    /\ calls[Len(calls)][3] = -1
    /\ calls[Len(calls)][4] = "fatal"
    /\ instances[Len(instances)].duration = -1
    /\ instances[Len(instances)].type = "fatal"

\* C9: isDark is a boolean in every reachable state, and at module
\* initialization it equals the host's theme preference.
C9_IsDarkBoolean ==
    /\ isDark \in BOOLEAN
    /\ lastOp = "init" => isDark = preferredDark

C9_Witness ==
    /\ lastOp = "toggleDark()"
    /\ isDark = TRUE
    /\ preferredDark = TRUE
    /\ toggleRun = 2

\* C10: a constructor call leaves isDark, app and every earlier record
\* unchanged; a toggleDark call leaves app and every record unchanged.
C10_ComponentsIndependent ==
    [][/\ lastOp' = "new GlobalErrorMsg" =>
            /\ isDark' = isDark
            /\ app' = app
            /\ Len(instances') = Len(instances) + 1
            /\ SubSeq(instances', 1, Len(instances)) = instances
       /\ lastOp' \in {"toggleDark()", "toggleDark(value)"} =>
            /\ app' = app
            /\ instances' = instances]_vars

C10_Witness ==
    /\ Len(instances) = 2
    /\ lastOp = "toggleDark()"
    /\ isDark # preferredDark
    /\ ~appAssigned

====
